---- MODULE Spec2Model ----
(***************************************************************************)
(* certkit-agent: the credential document lifecycle (config.go), the       *)
(* atomic file write it persists through (utils/io.go) and the request     *)
(* signer (auth.go).                                                       *)
(*                                                                         *)
(* Conventions.  A Go pointer is a sequence of length 0 (nil) or 1.  A Go  *)
(* string is a TLA+ string in the document and a sequence of characters in *)
(* the signer.  A file's bytes are a sequence of tokens, one per lexical   *)
(* unit of the JSON text json.MarshalIndent emits; a partial write leaves  *)
(* a proper prefix of that sequence.  Every system call is one step, so    *)
(* that a process can be interrupted between any two of them.              *)
(***************************************************************************)
EXTENDS Naturals, Sequences, FiniteSets, TLC

VARIABLES
    file,           \* the file at the config path
    tmps,           \* the temporary files of the config directory, by name
    nextTmp,        \* per process: number of temporary names os.CreateTemp gave it
    nextKey,        \* number of keypairs ed25519.GenerateKey has produced
    pc,             \* per process: position in the running operation
    loc,            \* per process: locals of the running operation
    CurrentConfig,  \* per process: the package variable config.CurrentConfig
    ret,            \* per process: what the last operation returned
    hist,           \* per process: its successful LoadConfig returns since the file last
                    \* had another writer: the first of them and the latest later one
    w,              \* per process: target before the last WriteFileAtomic, and its contents
    req,            \* the *http.Request handed to SignRequest
    sig             \* the inputs and outcome of the last SignRequest call

cfgVars == <<file, tmps, nextTmp, nextKey, pc, loc, CurrentConfig, ret, hist, w>>
sigVars == <<req, sig>>
vars == <<file, tmps, nextTmp, nextKey, pc, loc, CurrentConfig, ret, hist, w, req, sig>>

(***************************************************************************)
(* Bounds of the model.                                                    *)
(***************************************************************************)
MaxTmp == 1      \* temporary files one process creates in one behaviour
MaxKeys == 2     \* keypairs generated in one behaviour
MaxPiece == 3    \* tokens one write system call transfers at most

Procs == {1, 2}

Nil == <<>>
Ptr(x) == <<x>>

(***************************************************************************)
(* config.go: the document.                                                *)
(***************************************************************************)
defaultAPIBase == "https://app.certkit.io"
ConfigPath == "/etc/certkit-agent/config.json"
ConfigPerm == 384   \* 0o600

ZeroVersion == [Version |-> "", Commit |-> "", Date |-> ""]

\* The zero value of Config (var cfg Config).
ZeroConfig ==
    [ApiBase |-> "", Bootstrap |-> Nil, Agent |-> Nil, DesiredState |-> Nil,
     Auth |-> Nil, Version |-> ZeroVersion]

(***************************************************************************)
(* auth.go: keys.  A key's stored form is its unpadded base64url text: 43  *)
(* characters for 32 bytes, 86 for 64.                                     *)
(***************************************************************************)
PublicKeySize == 32
PrivateKeySize == 64

RECURSIVE Pad(_, _)
Pad(s, n) == IF Len(s) >= n THEN s ELSE Pad(s \o "A", n)

Digit == <<"1", "2", "3", "4", "5">>

\* base64.RawURLEncoding.EncodedLen
EncodedLen(n) == (n * 4 + 2) \div 3

\* base64.RawURLEncoding.EncodeToString of the k-th generated public/private key
PubText(k) == Pad("pub" \o Digit[k] \o "_", EncodedLen(PublicKeySize))
PrivText(k) == Pad("priv" \o Digit[k] \o "_", EncodedLen(PrivateKeySize))

\* base64.RawURLEncoding.DecodeString: the number of bytes an unpadded text of
\* base64url characters decodes to; a text of 4n+1 characters does not decode.
DecodeString(encoded) ==
    IF Len(encoded) % 4 = 1 THEN [err |-> TRUE, len |-> 0]
    ELSE [err |-> FALSE, len |-> (Len(encoded) * 3) \div 4]

\* DecodePrivateKey, DecodePublicKey: the error ("" for nil).
DecodePrivateKey(encoded) ==
    IF DecodeString(encoded).err THEN "decode private key"
    ELSE IF DecodeString(encoded).len # PrivateKeySize THEN "invalid private key length"
    ELSE ""
DecodePublicKey(encoded) ==
    IF DecodeString(encoded).err THEN "decode public key"
    ELSE IF DecodeString(encoded).len # PublicKeySize THEN "invalid public key length"
    ELSE ""

\* CreateNewKeyPair with a random source that repeats itself.
CreateRepeatedKeyPair(k) == Ptr([PublicKey |-> PubText(1), PrivateKey |-> PrivText(1)])

\* CreateNewKeyPair: the k-th keypair the random source yields.  (crypto/rand
\* does not fail; the error LoadConfig drops is never set.)
CreateNewKeyPair(k) == Ptr([PublicKey |-> PubText(k), PrivateKey |-> PrivText(k)])

(***************************************************************************)
(* encoding/json as config.go uses it.                                     *)
(***************************************************************************)
LBrace == [tok |-> "{"]
RBrace == [tok |-> "}"]
NL == [tok |-> "\n"]
SP == [tok |-> " "]
Member(k, v) == [tok |-> "member", k |-> k, v |-> v]

JString(s) == [j |-> "string", s |-> s]
JNull == [j |-> "null"]
JNumber(n) == [j |-> "number", n |-> n]
JObject(ms) == [j |-> "object", m |-> ms]

MarshalBootstrap(b) ==
    JObject(<<Member("access_key", JString(b.AccessKey)),
              Member("secret_key", JString(b.SecretKey))>>)

MarshalAgent(a) ==
    JObject(<<Member("agent_id", JString(a.AgentID)),
              Member("access_token", JString(a.AccessToken)),
              Member("refresh_token", JString(a.RefreshToken))>>)

MarshalKeyPair(kp) ==
    IF kp = Nil THEN JNull
    ELSE JObject(<<Member("public_key", JString(kp[1].PublicKey)),
                   Member("private_key", JString(kp[1].PrivateKey))>>)

MarshalAuth(a) == JObject(<<Member("key_pair", MarshalKeyPair(a.KeyPair))>>)

MarshalVersion(v) ==
    JObject(<<Member("Version", JString(v.Version)),
              Member("Commit", JString(v.Commit)),
              Member("Date", JString(v.Date))>>)

\* The members json.MarshalIndent emits for a Config, in field order.  A field
\* tagged omitempty is left out when nil or empty; Version is tagged with the
\* name "omit" and is always written.
ConfigMembers(cfg) ==
    <<Member("api_base", JString(cfg.ApiBase))>>
    \o (IF cfg.Bootstrap = Nil THEN <<>>
        ELSE <<Member("bootstrap", MarshalBootstrap(cfg.Bootstrap[1]))>>)
    \o (IF cfg.Agent = Nil THEN <<>>
        ELSE <<Member("agent", MarshalAgent(cfg.Agent[1]))>>)
    \o (IF cfg.DesiredState = Nil THEN <<>>
        ELSE <<Member("desired_state", cfg.DesiredState[1])>>)
    \o (IF cfg.Auth = Nil THEN <<>>
        ELSE <<Member("auth", MarshalAuth(cfg.Auth[1]))>>)
    \o <<Member("omit", MarshalVersion(cfg.Version))>>

MarshalIndent(cfg) == <<LBrace>> \o ConfigMembers(cfg) \o <<RBrace>>

IsSpace(t) == t.tok \in {"\n", " "}

\* bytes.TrimSpace
RECURSIVE TrimLeft(_)
TrimLeft(b) == IF b # <<>> /\ IsSpace(Head(b)) THEN TrimLeft(Tail(b)) ELSE b
RECURSIVE TrimRight(_)
TrimRight(b) ==
    IF b # <<>> /\ IsSpace(b[Len(b)]) THEN TrimRight(SubSeq(b, 1, Len(b) - 1)) ELSE b
TrimSpace(b) == TrimRight(TrimLeft(b))

\* The text is one JSON object: what the decoder's syntax scan accepts.
ValidObject(b) ==
    LET t == TrimSpace(b) IN
    /\ Len(t) >= 2
    /\ t[1] = LBrace
    /\ t[Len(t)] = RBrace
    /\ \A i \in 2..(Len(t) - 1) : t[i].tok = "member"

\* Index of the last member named k (a later duplicate overrides), 0 if none.
LastIndex(ms, k) ==
    LET hits == {i \in 1..Len(ms) : ms[i].k = k} IN
    IF hits = {} THEN 0 ELSE CHOOSE i \in hits : \A h \in hits : h <= i

HasMember(ms, k) == LastIndex(ms, k) # 0
ValueOf(ms, k) == ms[LastIndex(ms, k)].v

\* A string field: absent or null leaves the value, another type is an error.
DecString(ms, k, cur) ==
    IF ~HasMember(ms, k) \/ ValueOf(ms, k).j = "null" THEN [err |-> FALSE, val |-> cur]
    ELSE IF ValueOf(ms, k).j = "string" THEN [err |-> FALSE, val |-> ValueOf(ms, k).s]
    ELSE [err |-> TRUE, val |-> cur]

DecBootstrap(v) ==
    LET a == DecString(v.m, "access_key", "")
        s == DecString(v.m, "secret_key", "") IN
    [err |-> a.err \/ s.err, val |-> [AccessKey |-> a.val, SecretKey |-> s.val]]

DecAgent(v) ==
    LET a == DecString(v.m, "agent_id", "")
        t == DecString(v.m, "access_token", "")
        r == DecString(v.m, "refresh_token", "") IN
    [err |-> a.err \/ t.err \/ r.err,
     val |-> [AgentID |-> a.val, AccessToken |-> t.val, RefreshToken |-> r.val]]

DecKeyPair(v) ==
    LET p == DecString(v.m, "public_key", "")
        s == DecString(v.m, "private_key", "") IN
    [err |-> p.err \/ s.err, val |-> [PublicKey |-> p.val, PrivateKey |-> s.val]]

DecVersion(v) ==
    LET a == DecString(v.m, "Version", "")
        c == DecString(v.m, "Commit", "")
        d == DecString(v.m, "Date", "") IN
    [err |-> a.err \/ c.err \/ d.err,
     val |-> [Version |-> a.val, Commit |-> c.val, Date |-> d.val]]

\* A pointer-to-struct field: absent leaves it, null sets nil, an object is decoded.
DecKeyPairPtr(ms) ==
    IF ~HasMember(ms, "key_pair") THEN [err |-> FALSE, val |-> Nil]
    ELSE IF ValueOf(ms, "key_pair").j = "null" THEN [err |-> FALSE, val |-> Nil]
    ELSE IF ValueOf(ms, "key_pair").j = "object"
         THEN LET d == DecKeyPair(ValueOf(ms, "key_pair")) IN
              [err |-> d.err, val |-> Ptr(d.val)]
    ELSE [err |-> TRUE, val |-> Nil]

DecAuth(v) ==
    LET kp == DecKeyPairPtr(v.m) IN [err |-> kp.err, val |-> [KeyPair |-> kp.val]]

\* json.Unmarshal(b, &cfg) into a zero Config: [err, cfg].  A syntax error decodes
\* nothing; a type error is reported after the other fields were decoded.
Unmarshal(b) ==
    IF ~ValidObject(b) THEN [err |-> TRUE, cfg |-> ZeroConfig]
    ELSE
    LET t == TrimSpace(b)
        ms == SubSeq(t, 2, Len(t) - 1)
        Kind(k) == IF HasMember(ms, k) THEN ValueOf(ms, k).j ELSE "absent"
        api == DecString(ms, "api_base", "")
        boot == IF Kind("bootstrap") = "object" THEN DecBootstrap(ValueOf(ms, "bootstrap"))
                ELSE [err |-> FALSE, val |-> 0]
        agent == IF Kind("agent") = "object" THEN DecAgent(ValueOf(ms, "agent"))
                 ELSE [err |-> FALSE, val |-> 0]
        auth == IF Kind("auth") = "object" THEN DecAuth(ValueOf(ms, "auth"))
                ELSE [err |-> FALSE, val |-> 0]
        ver == IF Kind("omit") = "object" THEN DecVersion(ValueOf(ms, "omit"))
               ELSE [err |-> FALSE, val |-> ZeroVersion]
        PtrKindErr(k) == Kind(k) \notin {"absent", "null", "object"}
    IN
    [err |-> \/ api.err \/ boot.err \/ agent.err \/ auth.err \/ ver.err
             \/ PtrKindErr("bootstrap") \/ PtrKindErr("agent") \/ PtrKindErr("auth")
             \/ PtrKindErr("omit"),
     cfg |-> [ApiBase |-> api.val,
              Bootstrap |-> IF Kind("bootstrap") = "object" THEN Ptr(boot.val) ELSE Nil,
              Agent |-> IF Kind("agent") = "object" THEN Ptr(agent.val) ELSE Nil,
              DesiredState |-> IF HasMember(ms, "desired_state")
                               THEN Ptr(ValueOf(ms, "desired_state")) ELSE Nil,
              Auth |-> IF Kind("auth") = "object" THEN Ptr(auth.val) ELSE Nil,
              Version |-> ver.val]]

hasKeyPair(cfg) ==
    /\ cfg.Auth # Nil
    /\ cfg.Auth[1].KeyPair # Nil
    /\ ~(cfg.Auth[1].KeyPair[1].PublicKey = "" \/ cfg.Auth[1].KeyPair[1].PrivateKey = "")

(***************************************************************************)
(* The file system: a file is its bytes, its permission bits and whether   *)
(* its bytes have reached stable storage.                                  *)
(***************************************************************************)
NoFile == [exists |-> FALSE, content |-> <<>>, mode |-> 0, synced |-> TRUE]
StoredFile(b) == [exists |-> TRUE, content |-> b, mode |-> ConfigPerm, synced |-> TRUE]

\* os.CreateTemp never hands out a name twice: the k-th name of process p.
TmpName(p, k) == (p - 1) * MaxTmp + k
TmpNames == 1..(MaxTmp * Cardinality(Procs))

\* The arguments and environment of a call.
NoInput == [path |-> "", access |-> "", secret |-> ""]
LoadInput(path) == [path |-> path, access |-> "", secret |-> ""]
CreateInput(access, secret) == [path |-> ConfigPath, access |-> access, secret |-> secret]

IdleLoc ==
    [op |-> "", input |-> NoInput, cfg |-> ZeroConfig, contents |-> <<>>, perm |-> 0,
     tmp |-> 0, version |-> ZeroVersion]

\* What a call returned: the operation and its input, its error ("" for nil), the
\* document returned, whether a keypair was generated, and what the call's
\* WriteFileAtomic returned and which temporary file it had created (0: none).
Returned(op, input, err, cfg, generated, werr, tmp) ==
    [op |-> op, input |-> input, err |-> err, cfg |-> cfg, generated |-> generated,
     werr |-> werr, tmp |-> tmp]

NoReturn == Returned("", NoInput, "", ZeroConfig, FALSE, "", 0)

\* The identity a document holds (cfg.Auth).
IdentityOf(cfg) == cfg.Auth

(***************************************************************************)
(* What the environment supplies.                                          *)
(***************************************************************************)
AccessKeys == {"", "AK1"}
SecretKeys == {"", "SK1"}
ApiBaseEnv == {"", "https://alt.example"}
Paths == {"", ConfigPath}
RunVersion == [Version |-> "v0.0.1", Commit |-> "abc", Date |-> "today"]

\* The document scripts/install.sh writes on a first install.
ScriptDoc ==
    <<LBrace,
      Member("api_base", JString(defaultAPIBase)),
      Member("bootstrap", JObject(<<Member("access_key", JString("AK1")),
                                    Member("secret_key", JString("SK1"))>>)),
      Member("agent", JNull),
      Member("desired_state", JNull),
      RBrace, NL>>

\* A document that already holds an identity (written by an earlier run).
ProvisionedDoc ==
    MarshalIndent([ZeroConfig EXCEPT
        !.ApiBase = defaultAPIBase,
        !.Auth = Ptr([KeyPair |-> Ptr([PublicKey |-> Pad("pub0_", EncodedLen(PublicKeySize)),
                                       PrivateKey |-> Pad("priv0_", EncodedLen(PrivateKeySize))])])])
    \o <<NL>>

\* A document whose key pair has an empty private key.
HalfKeyDoc ==
    <<LBrace,
      Member("api_base", JString(defaultAPIBase)),
      Member("auth", JObject(<<Member("key_pair",
          JObject(<<Member("public_key", JString("c2hvcnQ")),
                    Member("private_key", JString(""))>>))>>)),
      RBrace, NL>>

\* A document whose key pair holds two texts of five bytes each.
ShortKeyDoc ==
    <<LBrace,
      Member("api_base", JString(defaultAPIBase)),
      Member("auth", JObject(<<Member("key_pair",
          JObject(<<Member("public_key", JString("c2hvcnQ")),
                    Member("private_key", JString("c2hvcnQ"))>>))>>)),
      RBrace, NL>>

\* A document whose api_base is not a string: valid JSON of the wrong shape.
WrongShapeDoc == <<LBrace, Member("api_base", JNumber(5)), RBrace, NL>>

\* A document cut short: not valid JSON.
TornDoc == <<LBrace, Member("api_base", JString(defaultAPIBase))>>

InitialFiles ==
    {NoFile, StoredFile(<<SP, NL>>), StoredFile(TornDoc),
     StoredFile(WrongShapeDoc), StoredFile(ScriptDoc), StoredFile(HalfKeyDoc),
     StoredFile(ShortKeyDoc), StoredFile(ProvisionedDoc)}

(***************************************************************************)
(* Returning from an operation.  SaveConfig returns what WriteFileAtomic   *)
(* returned; CreateInitialConfig returns that; LoadConfig drops it, sets   *)
(* the version, publishes the document as CurrentConfig and returns nil.   *)
(***************************************************************************)
LoadedConfig(l) == [l.cfg EXCEPT !.Version = l.version]

HistEntry(cfg, generated) == [generated |-> generated, identity |-> IdentityOf(cfg)]

NoHist == [first |-> Nil, later |-> Nil]
Record(h, e) == IF h.first = Nil THEN [h EXCEPT !.first = Ptr(e)] ELSE [h EXCEPT !.later = Ptr(e)]

\* The return of the operation of process p whose WriteFileAtomic returned werr;
\* renamed: the target was replaced, so every other process's history restarts.
Finish(p, werr, renamed) ==
    LET l == loc[p] IN
    /\ pc' = [pc EXCEPT ![p] = "idle"]
    /\ loc' = [loc EXCEPT ![p] = IdleLoc]
    /\ IF l.op = "LoadConfig"
       THEN /\ CurrentConfig' = [CurrentConfig EXCEPT ![p] = LoadedConfig(l)]
            /\ ret' = [ret EXCEPT ![p] =
                          Returned("LoadConfig", l.input, "", LoadedConfig(l), TRUE, werr, l.tmp)]
            /\ hist' = [q \in Procs |->
                          IF q = p THEN Record(hist[p], HistEntry(l.cfg, TRUE))
                          ELSE IF renamed THEN NoHist ELSE hist[q]]
       ELSE /\ UNCHANGED CurrentConfig
            /\ ret' = [ret EXCEPT ![p] =
                          Returned(l.op, l.input, werr, ZeroConfig, FALSE, werr, l.tmp)]
            /\ hist' = [q \in Procs |-> IF renamed THEN NoHist ELSE hist[q]]

\* An operation that returns without calling SaveConfig.
ReturnEarly(p, op, input, err) ==
    /\ ret' = [ret EXCEPT ![p] = Returned(op, input, err, ZeroConfig, FALSE, "", 0)]
    /\ UNCHANGED <<file, tmps, nextTmp, nextKey, pc, loc, CurrentConfig, hist, w>>

\* SaveConfig(cfg, path): marshal, append a newline, enter WriteFileAtomic.
SaveConfig(p, op, input, cfg, version) ==
    LET configBytes == MarshalIndent(cfg) \o <<NL>> IN
    /\ nextTmp[p] < MaxTmp
    /\ loc' = [loc EXCEPT ![p] =
                  [op |-> op, input |-> input, cfg |-> cfg, contents |-> configBytes,
                   perm |-> ConfigPerm, tmp |-> 0, version |-> version]]
    /\ w' = [w EXCEPT ![p] = [old |-> file, new |-> configBytes]]
    /\ ret' = [ret EXCEPT ![p] = NoReturn]
    /\ pc' = [pc EXCEPT ![p] = "CreateTemp"]

(***************************************************************************)
(* config.go: CreateInitialConfig.                                         *)
(***************************************************************************)
CreateInitialConfig(p) ==
    /\ pc[p] = "idle"
    /\ \E access \in AccessKeys, secret \in SecretKeys :
          IF access = "" \/ secret = ""
          THEN ReturnEarly(p, "CreateInitialConfig", CreateInput(access, secret),
                           "ACCESS_KEY and SECRET_KEY are required for first install")
          ELSE \E env \in ApiBaseEnv, mkdirOk \in BOOLEAN :
               IF ~mkdirOk
               THEN ReturnEarly(p, "CreateInitialConfig", CreateInput(access, secret),
                                "mkdir")
               ELSE LET apiBase == IF env = "" THEN defaultAPIBase ELSE env
                        cfg == [ZeroConfig EXCEPT
                                   !.ApiBase = apiBase,
                                   !.Bootstrap = Ptr([AccessKey |-> access,
                                                      SecretKey |-> secret])]
                    IN /\ SaveConfig(p, "CreateInitialConfig",
                                     CreateInput(access, secret), cfg, ZeroVersion)
                       /\ UNCHANGED <<file, tmps, nextTmp, nextKey, CurrentConfig, hist>>
    /\ UNCHANGED sigVars

(***************************************************************************)
(* config.go: LoadConfig, up to its call of SaveConfig.                    *)
(***************************************************************************)
\* LoadError with the emptiness test made on the untrimmed bytes.
LoadErrorUntrimmed(path, f, readOk) ==
    IF path = "" THEN "config path is empty"
    ELSE IF ~f.exists THEN "config file does not exist"
    ELSE IF ~readOk THEN "failed to read config file"
    ELSE IF Len(f.content) = 0 THEN "config file is empty"
    ELSE IF Unmarshal(f.content).err THEN "failed to parse config file"
    ELSE ""

\* The error LoadConfig returns before it has a document, "" when it has one.
LoadError(path, f, readOk) ==
    IF path = "" THEN "config path is empty"
    ELSE IF ~f.exists THEN "config file does not exist"
    ELSE IF ~readOk THEN "failed to read config file"
    ELSE IF Len(TrimSpace(f.content)) = 0 THEN "config file is empty"
    ELSE IF Unmarshal(f.content).err THEN "failed to parse config file"
    ELSE ""

LoadConfig(p) ==
    /\ pc[p] = "idle"
    /\ \E path \in Paths, readOk \in BOOLEAN :
          LET err == LoadError(path, file, readOk)
              cfg == Unmarshal(file.content).cfg
          IN
          IF err # ""
          THEN ReturnEarly(p, "LoadConfig", LoadInput(path), err)
          ELSE IF hasKeyPair(cfg)
          THEN LET done == [cfg EXCEPT !.Version = RunVersion] IN
               /\ CurrentConfig' = [CurrentConfig EXCEPT ![p] = done]
               /\ ret' = [ret EXCEPT ![p] =
                             Returned("LoadConfig", LoadInput(path), "", done, FALSE, "", 0)]
               /\ hist' = [hist EXCEPT ![p] = Record(@, HistEntry(cfg, FALSE))]
               /\ UNCHANGED <<file, tmps, nextTmp, nextKey, pc, loc, w>>
          ELSE /\ nextKey < MaxKeys
               /\ nextKey' = nextKey + 1
               /\ SaveConfig(p, "LoadConfig", LoadInput(path),
                             [cfg EXCEPT !.Auth =
                                 Ptr([KeyPair |-> CreateNewKeyPair(nextKey + 1)])],
                             RunVersion)
               /\ UNCHANGED <<file, tmps, nextTmp, CurrentConfig, hist>>
    /\ UNCHANGED sigVars

(***************************************************************************)
(* utils/io.go: WriteFileAtomic, one system call per step.                 *)
(***************************************************************************)
\* cleanup: close and remove the temporary file.
Cleanup(t) == [tmps EXCEPT ![t] = NoFile]

\* The permission bits of a file os.CreateTemp has made: 0o600 less the bits
\* the process's umask clears (0o600 itself, or 0o400 under a umask with 0o200).
CreateTempModes == {384, 256}

\* os.CreateTemp(dir, "."+base+".tmp.*")
CreateTemp(p) ==
    /\ pc[p] = "CreateTemp"
    /\ \E ok \in BOOLEAN, mode \in CreateTempModes :
          IF ok
          THEN /\ nextTmp' = [nextTmp EXCEPT ![p] = @ + 1]
               /\ tmps' = [tmps EXCEPT ![TmpName(p, nextTmp[p] + 1)] =
                              [exists |-> TRUE, content |-> <<>>, mode |-> mode,
                               synced |-> FALSE]]
               /\ loc' = [loc EXCEPT ![p].tmp = TmpName(p, nextTmp[p] + 1)]
               /\ pc' = [pc EXCEPT ![p] = "Chmod"]
               /\ UNCHANGED <<file, nextKey, CurrentConfig, ret, hist, w>>
          ELSE /\ Finish(p, "createtemp", FALSE)
               /\ UNCHANGED <<file, tmps, nextTmp, nextKey, w>>
    /\ UNCHANGED sigVars

\* Chmod left out: the write follows the creation directly.
ChmodSkipped(p) ==
    /\ pc[p] = "Chmod"
    /\ pc' = [pc EXCEPT ![p] = "Write"]
    /\ UNCHANGED <<file, tmps, nextTmp, nextKey, loc, CurrentConfig, ret, hist, w>>
    /\ UNCHANGED sigVars

\* tmp.Chmod(perm)
Chmod(p) ==
    /\ pc[p] = "Chmod"
    /\ \E ok \in BOOLEAN :
          IF ok
          THEN /\ tmps' = [tmps EXCEPT ![loc[p].tmp].mode = loc[p].perm]
               /\ pc' = [pc EXCEPT ![p] = "Write"]
               /\ UNCHANGED <<file, nextTmp, nextKey, loc, CurrentConfig, ret, hist, w>>
          ELSE /\ tmps' = Cleanup(loc[p].tmp)
               /\ Finish(p, "chmod", FALSE)
               /\ UNCHANGED <<file, nextTmp, nextKey, w>>
    /\ UNCHANGED sigVars

\* Write with the bytes written to the target path itself.
WriteInPlace(p) ==
    /\ pc[p] = "Write"
    /\ LET have == IF file.exists /\ ~file.synced THEN Len(file.content) ELSE 0
           total == Len(loc[p].contents)
           piece == IF have + MaxPiece < total THEN have + MaxPiece ELSE total
       IN \E n \in {piece, total}, ok \in BOOLEAN :
             IF ok
             THEN /\ file' = [exists |-> TRUE, content |-> SubSeq(loc[p].contents, 1, n),
                              mode |-> loc[p].perm, synced |-> FALSE]
                  /\ pc' = [pc EXCEPT ![p] = IF n = total THEN "Sync" ELSE "Write"]
                  /\ UNCHANGED <<tmps, nextTmp, nextKey, loc, CurrentConfig, ret, hist, w>>
             ELSE /\ tmps' = Cleanup(loc[p].tmp)
                  /\ Finish(p, "write", FALSE)
                  /\ UNCHANGED <<file, nextTmp, nextKey, w>>
    /\ UNCHANGED sigVars

\* tmp.Write(contents): the bytes reach the file in one or more pieces; a failed
\* piece ends the write with an error.
Write(p) ==
    /\ pc[p] = "Write"
    /\ LET t == loc[p].tmp
           have == Len(tmps[t].content)
           total == Len(loc[p].contents)
           piece == IF have + MaxPiece < total THEN have + MaxPiece ELSE total
       IN \E n \in {piece, total}, ok \in BOOLEAN :
             IF ok
             THEN /\ tmps' = [tmps EXCEPT ![t].content = SubSeq(loc[p].contents, 1, n)]
                  /\ pc' = [pc EXCEPT ![p] = IF n = total THEN "Sync" ELSE "Write"]
                  /\ UNCHANGED <<file, nextTmp, nextKey, loc, CurrentConfig, ret, hist, w>>
             ELSE /\ tmps' = Cleanup(t)
                  /\ Finish(p, "write", FALSE)
                  /\ UNCHANGED <<file, nextTmp, nextKey, w>>
    /\ UNCHANGED sigVars

\* tmp.Sync()
Sync(p) ==
    /\ pc[p] = "Sync"
    /\ \E ok \in BOOLEAN :
          IF ok
          THEN /\ tmps' = [tmps EXCEPT ![loc[p].tmp].synced = TRUE]
               /\ pc' = [pc EXCEPT ![p] = "Close"]
               /\ UNCHANGED <<file, nextTmp, nextKey, loc, CurrentConfig, ret, hist, w>>
          ELSE /\ tmps' = Cleanup(loc[p].tmp)
               /\ Finish(p, "sync", FALSE)
               /\ UNCHANGED <<file, nextTmp, nextKey, w>>
    /\ UNCHANGED sigVars

\* tmp.Close()
Close(p) ==
    /\ pc[p] = "Close"
    /\ \E ok \in BOOLEAN :
          IF ok
          THEN /\ pc' = [pc EXCEPT ![p] = "Rename"]
               /\ UNCHANGED <<file, tmps, nextTmp, nextKey, loc, CurrentConfig, ret, hist, w>>
          ELSE /\ tmps' = Cleanup(loc[p].tmp)
               /\ Finish(p, "close", FALSE)
               /\ UNCHANGED <<file, nextTmp, nextKey, w>>
    /\ UNCHANGED sigVars

\* return os.Rename(tmpName, path)
Rename(p) ==
    /\ pc[p] = "Rename"
    /\ \E ok \in BOOLEAN :
          IF ok
          THEN /\ file' = tmps[loc[p].tmp]
               /\ tmps' = [tmps EXCEPT ![loc[p].tmp] = NoFile]
               /\ Finish(p, "", TRUE)
               /\ UNCHANGED <<nextTmp, nextKey, w>>
          ELSE /\ Finish(p, "rename", FALSE)
               /\ UNCHANGED <<file, tmps, nextTmp, nextKey, w>>
    /\ UNCHANGED sigVars

(***************************************************************************)
(* Interruptions.                                                          *)
(***************************************************************************)
Crashed(l) == Returned("killed", l.input, "", ZeroConfig, FALSE, "", l.tmp)

\* The process is killed inside an operation; the next one starts afresh.
Kill(p) ==
    /\ pc[p] # "idle"
    /\ pc' = [pc EXCEPT ![p] = "idle"]
    /\ loc' = [loc EXCEPT ![p] = IdleLoc]
    /\ CurrentConfig' = [CurrentConfig EXCEPT ![p] = ZeroConfig]
    /\ ret' = [ret EXCEPT ![p] = Crashed(loc[p])]
    /\ UNCHANGED <<file, tmps, nextTmp, nextKey, hist, w>>
    /\ UNCHANGED sigVars

\* What is left of a file after power is lost: bytes that were not synced may
\* all have reached the disk, or none of them.
AfterPowerLoss(f) ==
    IF f.synced THEN {f} ELSE {f, [f EXCEPT !.content = <<>>]}

\* Power is lost; every process starts afresh.
PowerLoss ==
    /\ file' \in AfterPowerLoss(file)
    /\ \E lost \in SUBSET {t \in TmpNames : ~tmps[t].synced} :
          tmps' = [t \in TmpNames |->
                      IF t \in lost THEN [tmps[t] EXCEPT !.content = <<>>] ELSE tmps[t]]
    /\ pc' = [p \in Procs |-> "idle"]
    /\ loc' = [p \in Procs |-> IdleLoc]
    /\ CurrentConfig' = [p \in Procs |-> ZeroConfig]
    /\ ret' = [p \in Procs |-> IF pc[p] # "idle" THEN Crashed(loc[p]) ELSE NoReturn]
    /\ UNCHANGED <<nextTmp, nextKey, hist, w>>
    /\ UNCHANGED sigVars

(***************************************************************************)
(* auth.go: the request signer.  A string is the sequence of its           *)
(* characters, so that case mapping, trimming, escaping and joining are    *)
(* computed character by character.                                        *)
(***************************************************************************)
LowerLetters == <<"a", "b", "c", "d", "e", "f", "g", "h", "i", "j", "k", "l", "m", "n", "o", "p", "q", "r", "s", "t", "u", "v", "w", "x", "y", "z">>
UpperLetters == <<"A", "B", "C", "D", "E", "F", "G", "H", "I", "J", "K", "L", "M", "N", "O", "P", "Q", "R", "S", "T", "U", "V", "W", "X", "Y", "Z">>

LetterIndex(letters, c) == CHOOSE i \in 1..Len(letters) : letters[i] = c
IsIn(letters, c) == \E i \in 1..Len(letters) : letters[i] = c

\* strings.ToUpper, strings.ToLower
ToUpper(str) ==
    [i \in 1..Len(str) |->
        IF IsIn(LowerLetters, str[i]) THEN UpperLetters[LetterIndex(LowerLetters, str[i])]
        ELSE str[i]]
ToLower(str) ==
    [i \in 1..Len(str) |->
        IF IsIn(UpperLetters, str[i]) THEN LowerLetters[LetterIndex(UpperLetters, str[i])]
        ELSE str[i]]

WhiteSpace == {" ", "\t", "\n", "\r"}

\* strings.TrimSpace
RECURSIVE TrimStrLeft(_)
TrimStrLeft(str) ==
    IF str # <<>> /\ Head(str) \in WhiteSpace THEN TrimStrLeft(Tail(str)) ELSE str
RECURSIVE TrimStrRight(_)
TrimStrRight(str) ==
    IF str # <<>> /\ str[Len(str)] \in WhiteSpace
    THEN TrimStrRight(SubSeq(str, 1, Len(str) - 1)) ELSE str
TrimSpaceStr(str) == TrimStrRight(TrimStrLeft(str))

\* net/url: the escaping of one character of a path.
EscapeChar(c) ==
    CASE c = " " -> <<"%", "2", "0">>
      [] c = "?" -> <<"%", "3", "F">>
      [] c = "%" -> <<"%", "2", "5">>
      [] c = "\n" -> <<"%", "0", "A">>
      [] c = "#" -> <<"%", "2", "3">>
      [] OTHER -> <<c>>

\* (*url.URL).EscapedPath of a URL built from its decoded Path.
RECURSIVE EscapedPath(_)
EscapedPath(path) ==
    IF path = <<>> THEN <<>> ELSE EscapeChar(Head(path)) \o EscapedPath(Tail(path))

DecimalDigits == <<"0", "1", "2", "3", "4", "5", "6", "7", "8", "9">>

\* strconv.FormatInt(n, 10) for n >= 0
RECURSIVE FormatInt(_)
FormatInt(n) ==
    IF n < 10 THEN <<DecimalDigits[n + 1]>>
    ELSE FormatInt(n \div 10) \o <<DecimalDigits[(n % 10) + 1]>>

\* base64url(sha256(b)): one text per byte sequence, distinct for distinct byte
\* sequences, over characters of the base64url alphabet.
Sha256Base64url(b) == <<"h">> \o [i \in 1..Len(b) |-> DecimalDigits[b[i] + 1]]

\* ed25519.Sign, base64url-encoded: determined by the key and the message.
SignBase64url(priv, msg) == [key |-> priv, msg |-> msg]

\* io.ReadAll(body): the bytes read, whether the read failed, and the stream after.
ReadAll(body) ==
    [b |-> body.data, failed |-> body.fails, rest |-> [body EXCEPT !.data = <<>>]]

\* io.NopCloser(bytes.NewReader(b))
NewReader(b) == [data |-> b, fails |-> FALSE]

\* ComputeBodySHA256Base64url with the body left as read.
ComputeBodyUnrestored(r) ==
    IF r.Body = Nil
    THEN [err |-> "", hash |-> Sha256Base64url(<<>>), req |-> r]
    ELSE LET rd == ReadAll(r.Body[1]) IN
         IF rd.failed
         THEN [err |-> "read request body", hash |-> <<>>,
               req |-> [r EXCEPT !.Body = Ptr(rd.rest)]]
         ELSE [err |-> "", hash |-> Sha256Base64url(rd.b),
               req |-> [r EXCEPT !.Body = Ptr(rd.rest)]]

\* ComputeBodySHA256Base64url(req): [err, hash, req after].
ComputeBodySHA256Base64url(r) ==
    IF r.Body = Nil
    THEN [err |-> "", hash |-> Sha256Base64url(<<>>), req |-> r]
    ELSE LET rd == ReadAll(r.Body[1]) IN
         IF rd.failed
         THEN [err |-> "read request body", hash |-> <<>>,
               req |-> [r EXCEPT !.Body = Ptr(rd.rest)]]
         ELSE [err |-> "", hash |-> Sha256Base64url(rd.b),
               req |-> [r EXCEPT !.Body = Ptr(NewReader(rd.b))]]

\* canonicalPathAndQuery with the query left out.
canonicalPathOnly(u) ==
    IF u = Nil THEN <<"/">>
    ELSE IF EscapedPath(u[1].Path) = <<>> THEN <<"/">> ELSE EscapedPath(u[1].Path)

canonicalPathAndQuery(u) ==
    IF u = Nil THEN <<"/">>
    ELSE LET path == IF EscapedPath(u[1].Path) = <<>> THEN <<"/">>
                     ELSE EscapedPath(u[1].Path)
         IN IF u[1].RawQuery # <<>> THEN path \o <<"?">> \o u[1].RawQuery ELSE path

\* canonicalHost with the Host field taken as it is.
canonicalHostUntrimmed(r) ==
    IF r.Host # <<>> THEN ToLower(r.Host)
    ELSE IF r.URL # Nil THEN ToLower(r.URL[1].Host)
    ELSE <<>>

canonicalHost(r) ==
    LET h == TrimSpaceStr(r.Host) IN
    IF h # <<>> THEN ToLower(h)
    ELSE IF r.URL # Nil THEN ToLower(r.URL[1].Host)
    ELSE <<>>

\* buildSigningString with the path and host lines in the other order.
buildSigningStringHostFirst(method, pathQuery, host, ts, bodyHash) ==
    <<"m", "e", "t", "h", "o", "d", ":", " ">> \o ToUpper(method) \o <<"\n">>
    \o <<"h", "o", "s", "t", ":", " ">> \o ToLower(host) \o <<"\n">>
    \o <<"p", "a", "t", "h", ":", " ">> \o pathQuery \o <<"\n">>
    \o <<"t", "s", ":", " ">> \o FormatInt(ts) \o <<"\n">>
    \o <<"b", "o", "d", "y", "_", "s", "h", "a", "2", "5", "6", ":", " ">> \o bodyHash

buildSigningString(method, pathQuery, host, ts, bodyHash) ==
    <<"m", "e", "t", "h", "o", "d", ":", " ">> \o ToUpper(method) \o <<"\n">>
    \o <<"p", "a", "t", "h", ":", " ">> \o pathQuery \o <<"\n">>
    \o <<"h", "o", "s", "t", ":", " ">> \o ToLower(host) \o <<"\n">>
    \o <<"t", "s", ":", " ">> \o FormatInt(ts) \o <<"\n">>
    \o <<"b", "o", "d", "y", "_", "s", "h", "a", "2", "5", "6", ":", " ">> \o bodyHash

\* now.UTC().Unix() with the time rounded to the nearest second.
UnixRounded(now) == IF now.nsec >= 500000000 THEN now.sec + 1 ELSE now.sec

\* now.UTC().Unix()
Unix(now) == now.sec

\* http.Header: a name's values; Set replaces them by one value.
HeaderNames ==
    {"X-Agent-Id", "X-Agent-Timestamp", "X-Agent-Content-SHA256", "Authorization",
     "Content-Type"}
SignedHeaders ==
    {"X-Agent-Id", "X-Agent-Timestamp", "X-Agent-Content-SHA256", "Authorization"}
Text(str) == [text |-> str]
\* Header.Add in place of Header.Set: the value joins the earlier ones.
HeaderAdd(h, name, value) == [h EXCEPT ![name] = Append(@, value)]
HeaderSet(h, name, value) == [h EXCEPT ![name] = <<value>>]

\* The Authorization value: AgentSig keyId="..", alg="ed25519", sig="..", signed=".."
AgentSig(agentID, sigB64) ==
    [scheme |-> "AgentSig", keyId |-> agentID, alg |-> "ed25519", sig |-> sigB64,
     signed |-> "method path host ts body_sha256"]

\* The checks SignRequest makes before it touches the request, without the one
\* of the key's length.
PreconditionErrorNoKeyCheck(rq, agentID, priv) ==
    IF rq = Nil THEN "req is nil"
    ELSE IF agentID = <<>> THEN "agentID is required"
    ELSE IF rq[1].URL = Nil THEN "req.URL is nil"
    ELSE ""

\* The checks SignRequest makes before it touches the request.
PreconditionError(rq, agentID, priv) ==
    IF rq = Nil THEN "req is nil"
    ELSE IF Len(priv) # PrivateKeySize THEN "invalid ed25519 private key length"
    ELSE IF agentID = <<>> THEN "agentID is required"
    ELSE IF rq[1].URL = Nil THEN "req.URL is nil"
    ELSE ""

\* SignRequest(req, agentID, priv, now): the error ("" for nil), the request as
\* the call leaves it, and the string that was signed.
SignRequest(rq, agentID, priv, now) ==
    IF PreconditionError(rq, agentID, priv) # ""
    THEN [err |-> PreconditionError(rq, agentID, priv), req |-> rq, signing |-> <<>>]
    ELSE
    LET ts == Unix(now)
        body == ComputeBodySHA256Base64url(rq[1])
        r == body.req
        pathQuery == canonicalPathAndQuery(r.URL)
        host == canonicalHost(r)
        signingString == buildSigningString(r.Method, pathQuery, host, ts, body.hash)
        sigB64 == SignBase64url(priv, signingString)
        h1 == HeaderSet(r.Header, "X-Agent-Id", Text(agentID))
        h2 == HeaderSet(h1, "X-Agent-Timestamp", Text(FormatInt(ts)))
        h3 == HeaderSet(h2, "X-Agent-Content-SHA256", Text(body.hash))
        h4 == HeaderSet(h3, "Authorization", AgentSig(agentID, sigB64))
    IN
    IF body.err # "" THEN [err |-> body.err, req |-> Ptr(r), signing |-> <<>>]
    ELSE IF host = <<>>
    THEN [err |-> "missing host (req.Host and req.URL.Host both empty)", req |-> Ptr(r),
          signing |-> <<>>]
    ELSE [err |-> "", req |-> Ptr([r EXCEPT !.Header = h4]), signing |-> signingString]

(***************************************************************************)
(* What a caller hands to SignRequest.                                     *)
(***************************************************************************)
Methods == {<<"G", "E", "T">>, <<"g", "e", "t">>}
UrlPaths == {<<>>, <<"/">>, <<"/", "a">>}
RawQueries == {<<>>, <<"x", "=", "1">>}
UrlHosts == {<<"e", ".", "i", "o">>}
ReqHosts == {<<>>, <<"E", ".", "i", "o">>}
BodyBytes == {<<>>, <<1, 2>>}
Bodies ==
    {Nil} \cup {Ptr([data |-> b, fails |-> f]) : b \in BodyBytes, f \in BOOLEAN}

NoHeaders == [n \in HeaderNames |-> <<>>]
\* Headers of a request that already carries credentials of another kind.
StaleHeaders ==
    [NoHeaders EXCEPT !["Authorization"] = <<Text(<<"B", "e", "a", "r", "e", "r", " ", "t">>)>>,
                      !["X-Agent-Id"] = <<Text(<<"o", "l", "d">>)>>,
                      !["Content-Type"] = <<Text(<<"j", "s", "o", "n">>)>>]
Headers == {NoHeaders, StaleHeaders}

Url(path, query, host) == Ptr([Path |-> path, RawQuery |-> query, Host |-> host])
Request(method, url, host, header, body) ==
    [Method |-> method, URL |-> url, Host |-> host, Header |-> header, Body |-> body]

Urls == {Url(p, q, h) : p \in UrlPaths, q \in RawQueries, h \in UrlHosts}

\* Requests with no URL, with no host anywhere (one of them with a body that
\* cannot be read), and with a line break in a field.
OddRequests ==
    {Request(<<"G", "E", "T">>, Nil, <<"E", ".", "i", "o">>, NoHeaders, Nil),
     Request(<<"G", "E", "T">>, Url(<<"/", "a">>, <<>>, <<>>), <<" ">>, NoHeaders,
             Ptr([data |-> <<1, 2>>, fails |-> FALSE])),
     Request(<<"G", "E", "T">>, Url(<<"/", "a">>, <<>>, <<>>), <<>>, StaleHeaders,
             Ptr([data |-> <<1, 2>>, fails |-> TRUE])),
     Request(<<"G", "E", "T">>, Url(<<"/", "a">>, <<"q", "\n", "h", "o", "s", "t", ":", " ", "e">>, <<"e", ".", "i", "o">>), <<"f">>, NoHeaders, Nil),
     Request(<<"G", "E", "T">>, Url(<<"/", "a">>, <<"q">>, <<"e", ".", "i", "o">>), <<"e", "\n", "h", "o", "s", "t", ":", " ", "f">>, NoHeaders, Nil)}

Requests ==
    {Request(m, u, h, hd, b) : m \in Methods, u \in Urls, h \in ReqHosts,
                               hd \in Headers, b \in Bodies}
    \cup OddRequests

AgentIDs == {<<>>, <<"a", "1">>}
ValidKey == [i \in 1..PrivateKeySize |-> 7]
ShortKey == [i \in 1..PublicKeySize |-> 7]
PrivateKeys == {ValidKey, ShortKey}
Nows ==
    {[sec |-> 1700000000, nsec |-> 0], [sec |-> 1700000000, nsec |-> 600000000],
     [sec |-> 1700000001, nsec |-> 0]}

NoCall ==
    [called |-> FALSE, before |-> Nil, agentID |-> <<>>, priv |-> <<>>,
     now |-> [sec |-> 0, nsec |-> 0], err |-> "", signing |-> <<>>]

\* The caller builds a request (or has none).
NewRequest ==
    /\ req' \in {Nil} \cup {Ptr(r) : r \in Requests}
    /\ sig' = NoCall
    /\ UNCHANGED cfgVars

\* The caller signs the request it holds.
Sign ==
    \E agentID \in AgentIDs, priv \in PrivateKeys, now \in Nows :
        LET out == SignRequest(req, agentID, priv, now) IN
        /\ req' = out.req
        /\ sig' = [called |-> TRUE, before |-> req, agentID |-> agentID, priv |-> priv,
                   now |-> now, err |-> out.err, signing |-> out.signing]
        /\ UNCHANGED cfgVars

InitSigner ==
    /\ file = NoFile
    /\ tmps = [t \in TmpNames |-> NoFile]
    /\ nextTmp = [p \in Procs |-> 0]
    /\ nextKey = 0
    /\ pc = [p \in Procs |-> "idle"]
    /\ loc = [p \in Procs |-> IdleLoc]
    /\ CurrentConfig = [p \in Procs |-> ZeroConfig]
    /\ ret = [p \in Procs |-> NoReturn]
    /\ hist = [p \in Procs |-> NoHist]
    /\ w = [p \in Procs |-> [old |-> NoFile, new |-> <<>>]]
    /\ req = Nil
    /\ sig = NoCall

NextSigner == NewRequest \/ Sign

SpecSigner == InitSigner /\ [][NextSigner]_vars

(***************************************************************************)
(* The agent as one process.                                               *)
(***************************************************************************)
InitConfig ==
    /\ file \in InitialFiles
    /\ tmps = [t \in TmpNames |-> NoFile]
    /\ nextTmp = [p \in Procs |-> 0]
    /\ nextKey = 0
    /\ pc = [p \in Procs |-> "idle"]
    /\ loc = [p \in Procs |-> IdleLoc]
    /\ CurrentConfig = [p \in Procs |-> ZeroConfig]
    /\ ret = [p \in Procs |-> NoReturn]
    /\ hist = [p \in Procs |-> NoHist]
    /\ w = [p \in Procs |-> [old |-> file, new |-> file.content]]

InitSign ==
    /\ req = Nil
    /\ sig = NoCall

Init == InitConfig /\ InitSign

Step(p) ==
    \/ CreateInitialConfig(p)
    \/ LoadConfig(p)
    \/ CreateTemp(p)
    \/ Chmod(p)
    \/ Write(p)
    \/ Sync(p)
    \/ Close(p)
    \/ Rename(p)
    \/ Kill(p)

Next == Step(1) \/ PowerLoss

Spec == Init /\ [][Next]_vars

(***************************************************************************)
(* Two agent processes that load the same document without an identity;    *)
(* nothing but the file system orders their steps.                         *)
(***************************************************************************)
InitRace ==
    /\ file \in {StoredFile(ScriptDoc), StoredFile(HalfKeyDoc)}
    /\ tmps = [t \in TmpNames |-> NoFile]
    /\ nextTmp = [p \in Procs |-> 0]
    /\ nextKey = 0
    /\ pc = [p \in Procs |-> "idle"]
    /\ loc = [p \in Procs |-> IdleLoc]
    /\ CurrentConfig = [p \in Procs |-> ZeroConfig]
    /\ ret = [p \in Procs |-> NoReturn]
    /\ hist = [p \in Procs |-> NoHist]
    /\ w = [p \in Procs |-> [old |-> file, new |-> file.content]]
    /\ InitSign

NextRace ==
    \E p \in Procs :
        \/ LoadConfig(p)
        \/ CreateTemp(p)
        \/ Chmod(p)
        \/ Write(p)
        \/ Sync(p)
        \/ Close(p)
        \/ Rename(p)

SpecRace == InitRace /\ [][NextRace]_vars

(***************************************************************************)
(* Properties of the configuration lifecycle, one process (Spec).          *)
(***************************************************************************)
Members(b) == SubSeq(TrimSpace(b), 2, Len(TrimSpace(b)) - 1)
Blank(f) == Len(TrimSpace(f.content)) = 0

\* C1: at every step of a write, and after any interruption of it, the target
\* path holds exactly what it held before the write began (or is still absent)
\* or exactly the complete new contents; never a part of a document.
WriteIsAtomic ==
    \/ file = w[1].old
    \/ file.exists /\ file.content = w[1].new

\* C1 witness: the process was killed with part of the document in the temporary
\* file, and the target still holds the previous document.
KilledMidWrite ==
    /\ ret[1].op = "killed"
    /\ ret[1].tmp # 0
    /\ tmps[ret[1].tmp].exists
    /\ Len(tmps[ret[1].tmp].content) > 0
    /\ Len(tmps[ret[1].tmp].content) < Len(w[1].new)
    /\ file.exists
    /\ file = w[1].old

\* C2: among the successful LoadConfig calls of one process with no other writer
\* of the file, every call after the first generates no keypair and returns the
\* identity the first call returned.
ProvisionedOnce ==
    hist[1].later # Nil =>
        /\ ~hist[1].later[1].generated
        /\ hist[1].later[1].identity = hist[1].first[1].identity

\* C3: when LoadConfig has returned success after generating an identity, the
\* file holds exactly the identity of the returned document and of CurrentConfig.
PersistedBeforeReturn ==
    (ret[1].op = "LoadConfig" /\ ret[1].err = "" /\ ret[1].generated) =>
        /\ file.exists
        /\ ~Unmarshal(file.content).err
        /\ IdentityOf(Unmarshal(file.content).cfg) = IdentityOf(ret[1].cfg)
        /\ IdentityOf(CurrentConfig[1]) = IdentityOf(ret[1].cfg)

\* C4: after WriteFileAtomic has returned an error, the temporary file that call
\* created is gone.
TmpRemovedOnError ==
    \A p \in Procs :
        (ret[p].werr # "" /\ ret[p].tmp # 0) => ~tmps[ret[p].tmp].exists

\* The case each LoadConfig error stands for, read off the last return.
LoadErrorCases ==
    LET r == ret[1]
        path == r.input.path
        unparsable == ~Blank(file) /\ Unmarshal(file.content).err
    IN r.op = "LoadConfig" =>
        /\ (path = "") <=> (r.err = "config path is empty")
        /\ (path # "" /\ ~file.exists) <=> (r.err = "config file does not exist")
        /\ r.err = "config file is empty" => path # "" /\ file.exists /\ Blank(file)
        /\ r.err = "failed to parse config file" => path # "" /\ file.exists /\ unparsable
        /\ (path # "" /\ file.exists /\ Blank(file)) =>
               r.err \in {"config file is empty", "failed to read config file"}
        /\ (path # "" /\ file.exists /\ unparsable) =>
               r.err \in {"failed to parse config file", "failed to read config file"}
        /\ r.err = "" => path # "" /\ file.exists /\ ~Blank(file) /\ ~unparsable

\* A step in which LoadConfig returns an error.
LoadFailureStep ==
    /\ ret'[1] # ret[1]
    /\ ret'[1].op = "LoadConfig"
    /\ ret'[1].err # ""

\* C9: LoadConfig fails with its own error for an empty path, a missing file, a
\* file empty after trimming and a file that does not parse, and a failing call
\* generates no keypair, writes no file and leaves CurrentConfig as it was.
LoadFailsCleanly ==
    /\ []LoadErrorCases
    /\ [][LoadFailureStep =>
            /\ file' = file
            /\ tmps' = tmps
            /\ nextTmp' = nextTmp
            /\ nextKey' = nextKey
            /\ CurrentConfig' = CurrentConfig]_vars

\* C9 witness: a call with an empty path has failed after an earlier call had
\* loaded a document, which CurrentConfig still holds.
LoadFailedAfterLoad ==
    /\ ret[1].op = "LoadConfig"
    /\ ret[1].err = "config path is empty"
    /\ CurrentConfig[1] # ZeroConfig

\* C10: with both keys supplied CreateInitialConfig leaves a document of exactly
\* the two members api_base and bootstrap, the bootstrap holding the supplied
\* keys; with a key missing it fails and writes nothing.
InitialConfigOnlyBootstrap ==
    LET r == ret[1] IN
    r.op = "CreateInitialConfig" =>
        IF r.input.access = "" \/ r.input.secret = ""
        THEN r.err # "" /\ r.tmp = 0
        ELSE r.err = "" =>
             /\ file.exists
             /\ ~Unmarshal(file.content).err
             /\ {Members(file.content)[i].k : i \in 1..Len(Members(file.content))}
                    = {"api_base", "bootstrap"}
             /\ Unmarshal(file.content).cfg.Bootstrap
                    = Ptr([AccessKey |-> r.input.access, SecretKey |-> r.input.secret])


(***************************************************************************)
(* Properties of the request signer.                                       *)
(***************************************************************************)
HeadersOf(rq, names) == [n \in names |-> rq[1].Header[n]]

\* What reading a body to its end yields.
ReadToEnd(body) == IF body = Nil THEN <<>> ELSE body[1].data

BodyReadFails(rq) == rq # Nil /\ rq[1].Body # Nil /\ rq[1].Body[1].fails

PreconditionViolated(rq, agentID, priv) ==
    \/ rq = Nil
    \/ Len(priv) # PrivateKeySize
    \/ agentID = <<>>
    \/ rq[1].URL = Nil

\* C5: a call with a nil request, a nil URL, a key that is not 64 bytes long, an
\* empty agent id or a body whose read fails returns an error and signs
\* nothing: the four signature headers are as they were, and after a violated
\* precondition the request is exactly as it was.
InvalidCallSignsNothing ==
    sig.called =>
        /\ (PreconditionViolated(sig.before, sig.agentID, sig.priv)
                => sig.err # "" /\ sig.signing = <<>> /\ req = sig.before)
        /\ (BodyReadFails(sig.before)
                => /\ sig.err # ""
                   /\ sig.signing = <<>>
                   /\ HeadersOf(req, SignedHeaders) = HeadersOf(sig.before, SignedHeaders))

BodyReadFailedKeepsHeaders ==
    /\ sig.called
    /\ ~PreconditionViolated(sig.before, sig.agentID, sig.priv)
    /\ BodyReadFails(sig.before)
    /\ sig.before[1].Header = StaleHeaders
    /\ sig.err = "read request body"
    /\ req[1].Header = StaleHeaders

\* C6 as stated: after any call, reading the body to its end yields the bytes
\* it held before the call, and an absent body stays absent.
BodyPreservedAlways ==
    (sig.called /\ sig.before # Nil) =>
        /\ ReadToEnd(req[1].Body) = ReadToEnd(sig.before[1].Body)
        /\ (req[1].Body = Nil <=> sig.before[1].Body = Nil)

\* C6: after a call in which the read of the body did not fail, reading the body
\* to its end yields the bytes it held before the call, and an absent body stays
\* absent.
BodyPreserved ==
    (sig.called /\ sig.before # Nil /\ sig.err # "read request body") =>
        /\ ReadToEnd(req[1].Body) = ReadToEnd(sig.before[1].Body)
        /\ (req[1].Body = Nil <=> sig.before[1].Body = Nil)

SignedWithBody ==
    /\ sig.called
    /\ sig.err = ""
    /\ sig.before[1].Body # Nil
    /\ sig.before[1].Body[1].data = <<1, 2>>
    /\ ReadToEnd(req[1].Body) = <<1, 2>>

\* The fields of a request that the signature covers, as the caller set them.
SameSignedInput(a, b) ==
    /\ a.Method = b.Method
    /\ a.URL = b.URL
    /\ a.Host = b.Host
    /\ ReadToEnd(a.Body) = ReadToEnd(b.Body)

\* C7: a call that signed, repeated on the same request, on the request it left
\* behind, or on any request with the same method, URL, host and body, with the
\* same key and agent id and a time in the same unix second, yields the same
\* four headers (and so the same signature).
SigningIsDeterministic ==
    (sig.called /\ sig.err = "") =>
        \A now2 \in {n \in Nows : n.sec = sig.now.sec} :
            /\ \A r2 \in {r \in Requests : /\ SameSignedInput(r, sig.before[1])
                                            /\ ~BodyReadFails(Ptr(r))} :
                   LET again == SignRequest(Ptr(r2), sig.agentID, sig.priv, now2) IN
                   /\ again.err = ""
                   /\ HeadersOf(again.req, SignedHeaders) = HeadersOf(req, SignedHeaders)
            /\ LET twice == SignRequest(req, sig.agentID, sig.priv, now2) IN
               /\ twice.err = ""
               /\ HeadersOf(twice.req, SignedHeaders) = HeadersOf(req, SignedHeaders)
               /\ twice.req = req

SignedLateInTheSecond ==
    /\ sig.called
    /\ sig.err = ""
    /\ sig.now.nsec > 0
    /\ sig.before[1].Header = StaleHeaders
    /\ req[1].Header["Authorization"] =
           <<AgentSig(sig.agentID, SignBase64url(sig.priv, sig.signing))>>

\* The signed attributes of a request as the caller set them.
RawFields(r, now) ==
    <<r.Method, r.URL[1].Path, r.URL[1].RawQuery, r.Host, r.URL[1].Host, now.sec,
      ReadToEnd(r.Body)>>

\* The signed attributes of a request as the signer reads them: the method in
\* upper case, the escaped path with "/" for none, the query, the host in force
\* in lower case, the unix second and the body's bytes.
CanonicalFields(r, now) ==
    <<ToUpper(r.Method), canonicalPathOnly(r.URL), r.URL[1].RawQuery, canonicalHost(r),
      now.sec, ReadToEnd(r.Body)>>

HasLineBreak(str) == \E i \in 1..Len(str) : str[i] = "\n"
NoLineBreaks(r) ==
    /\ ~HasLineBreak(r.Method)
    /\ ~HasLineBreak(r.URL[1].RawQuery)
    /\ ~HasLineBreak(canonicalHost(r))

GeneratedAndSaved(p) ==
    /\ ret[p].op = "LoadConfig"
    /\ ret[p].err = ""
    /\ ret[p].generated
    /\ ret[p].werr = ""

FileIdentity == IdentityOf(Unmarshal(file.content).cfg)

\* Both processes generated a key pair of their own and returned success; the
\* file holds one of the two and the other process holds a different one.
RaceOutcome ==
    (\A p \in Procs : GeneratedAndSaved(p)) =>
        /\ IdentityOf(ret[1].cfg) # IdentityOf(ret[2].cfg)
        /\ \A p \in Procs : IdentityOf(CurrentConfig[p]) = IdentityOf(ret[p].cfg)
        /\ FileIdentity \in {IdentityOf(ret[p].cfg) : p \in Procs}
        /\ \E p \in Procs : IdentityOf(CurrentConfig[p]) # FileIdentity

\* The rename of process p's write lands.
RenameLands(p) ==
    /\ pc[p] = "Rename"
    /\ pc'[p] = "idle"
    /\ ret'[p].op = "LoadConfig"
    /\ ret'[p].werr = ""

\* C11: two processes that load the same document without an identity each
\* generate a key pair of their own and each return success; every rename that
\* lands puts its process's document at the path whatever was there, so the file
\* ends with the key pair of the last rename and the other process goes on with
\* an identity that is not the persisted one.
RaceLastRenameWins ==
    /\ []RaceOutcome
    /\ [][\A p \in Procs :
             RenameLands(p) =>
                /\ file'.content = w[p].new
                /\ IdentityOf(Unmarshal(file'.content).cfg) = IdentityOf(ret'[p].cfg)
                /\ ret'[p].err = ""]_vars

LoserKeepsDiscardedKey ==
    /\ \A p \in Procs : GeneratedAndSaved(p)
    /\ FileIdentity = IdentityOf(ret[2].cfg)
    /\ hasKeyPair(CurrentConfig[1])
    /\ IdentityOf(CurrentConfig[1]) # FileIdentity


(***************************************************************************)
(* Permissions of what WriteFileAtomic writes (Spec).                      *)
(***************************************************************************)
\* No permission bit of group or others is set.
OwnerOnly(mode) == mode % 64 = 0

\* C12: a temporary file that holds any byte of the document has the requested
\* mode 0o600, at every step of the write and after any interruption of it, so
\* no file with key material has a bit of group or others set; and the file at
\* the path has mode 0o600.
TmpFileIsPrivate ==
    /\ \A t \in TmpNames :
           (tmps[t].exists /\ Len(tmps[t].content) > 0) =>
               /\ tmps[t].mode = ConfigPerm
               /\ OwnerOnly(tmps[t].mode)
    /\ \A p \in Procs :
           (pc[p] \in {"Write", "Sync", "Close", "Rename"}) =>
               tmps[loc[p].tmp].mode = loc[p].perm
    /\ file.exists => file.mode = ConfigPerm /\ OwnerOnly(file.mode)

\* The key pair has reached the temporary file, which is still being written.
KeyMaterialInTmp ==
    /\ pc[1] = "Write"
    /\ \E i \in 1..Len(tmps[loc[1].tmp].content) :
           /\ tmps[loc[1].tmp].content[i].tok = "member"
           /\ tmps[loc[1].tmp].content[i].k = "auth"
    /\ tmps[loc[1].tmp].mode = ConfigPerm


(***************************************************************************)
(* The signed string against the headers (SpecSigner).                     *)
(***************************************************************************)
\* The lines of a text: its pieces between line breaks.
RECURSIVE SplitLines(_, _)
SplitLines(str, line) ==
    IF str = <<>> THEN <<line>>
    ELSE IF Head(str) = "\n" THEN <<line>> \o SplitLines(Tail(str), <<>>)
    ELSE SplitLines(Tail(str), Append(line, Head(str)))
Lines(str) == SplitLines(str, <<>>)

\* Lines joined by line breaks.
RECURSIVE JoinLines(_)
JoinLines(ls) ==
    IF Len(ls) = 1 THEN ls[1] ELSE ls[1] \o <<"\n">> \o JoinLines(Tail(ls))

\* The text of the only value of a header.
HeaderText(rq, name) == rq[1].Header[name][1].text

\* The five lines a verifier derives from the request and the headers it got.
VerifierLines ==
    <<<<"m", "e", "t", "h", "o", "d", ":", " ">> \o ToUpper(req[1].Method),
      <<"p", "a", "t", "h", ":", " ">> \o canonicalPathAndQuery(req[1].URL),
      <<"h", "o", "s", "t", ":", " ">> \o canonicalHost(req[1]),
      <<"t", "s", ":", " ">> \o HeaderText(req, "X-Agent-Timestamp"),
      <<"b", "o", "d", "y", "_", "s", "h", "a", "2", "5", "6", ":", " ">> \o HeaderText(req, "X-Agent-Content-SHA256")>>

\* The headers name the time and body the call was given, and the agent.
HeadersNameTheCall ==
    /\ \A n \in SignedHeaders : Len(req[1].Header[n]) = 1
    /\ HeaderText(req, "X-Agent-Timestamp") = FormatInt(sig.now.sec)
    /\ HeaderText(req, "X-Agent-Content-SHA256")
           = Sha256Base64url(ReadToEnd(sig.before[1].Body))
    /\ HeaderText(req, "X-Agent-Id") = sig.agentID
    /\ req[1].Header["Authorization"][1].keyId = sig.agentID
    /\ req[1].Header["Authorization"][1].sig = SignBase64url(sig.priv, sig.signing)

\* C13 as stated: after every successful call the signed string has exactly
\* the five lines method, path, host, ts, body_sha256 that the request and the
\* headers give, in that order, and the headers name the call's agent id.
SignedStringIsFiveLines ==
    (sig.called /\ sig.err = "") =>
        /\ Lines(sig.signing) = VerifierLines
        /\ HeadersNameTheCall

\* C13: after every successful call the signed string is the five entries
\* method, path, host, ts, body_sha256 that the request and the headers give,
\* joined by line breaks in that order, and the headers name the call's time,
\* body and agent id; when method, query and host hold no line break the
\* string has exactly those five lines.
SignedStringAgreesWithHeaders ==
    (sig.called /\ sig.err = "") =>
        /\ sig.signing = JoinLines(VerifierLines)
        /\ HeadersNameTheCall
        /\ NoLineBreaks(sig.before[1]) => Lines(sig.signing) = VerifierLines

SignedOverStaleHeaders ==
    /\ sig.called
    /\ sig.err = ""
    /\ NoLineBreaks(sig.before[1])
    /\ sig.before[1].Header = StaleHeaders
    /\ sig.before[1].Method = <<"g", "e", "t">>
    /\ sig.before[1].Host # <<>>
    /\ Len(Lines(sig.signing)) = 5
    /\ HeaderText(req, "X-Agent-Id") = sig.agentID


(***************************************************************************)
(* The identity a load hands out (Spec).                                   *)
(***************************************************************************)
\* A key pair is present and both keys decode to their sizes.
ValidIdentity(cfg) ==
    /\ cfg.Auth # Nil
    /\ cfg.Auth[1].KeyPair # Nil
    /\ DecodePublicKey(cfg.Auth[1].KeyPair[1].PublicKey) = ""
    /\ DecodePrivateKey(cfg.Auth[1].KeyPair[1].PrivateKey) = ""

\* C14: after every successful LoadConfig the returned document and
\* CurrentConfig hold a key pair whose public key decodes to 32 bytes and whose
\* private key decodes to 64 bytes.
LoadedIdentityIsValid ==
    (ret[1].op = "LoadConfig" /\ ret[1].err = "") =>
        /\ ValidIdentity(ret[1].cfg)
        /\ ValidIdentity(CurrentConfig[1])


(***************************************************************************)
(* What a successful call leaves alone (SpecSigner).                       *)
(***************************************************************************)
\* C15: a successful call changes the four headers X-Agent-Id,
\* X-Agent-Timestamp, X-Agent-Content-SHA256 and Authorization, each to one
\* value in place of any earlier ones, and the body stream; the method, the
\* URL, the Host field and every other header are as they were.
OnlySignedHeadersChange ==
    (sig.called /\ sig.err = "") =>
        /\ req[1].Method = sig.before[1].Method
        /\ req[1].URL = sig.before[1].URL
        /\ req[1].Host = sig.before[1].Host
        /\ \A n \in HeaderNames \ SignedHeaders :
               req[1].Header[n] = sig.before[1].Header[n]
        /\ \A n \in SignedHeaders : Len(req[1].Header[n]) = 1
        /\ req[1].Header["X-Agent-Id"] = <<Text(sig.agentID)>>
        /\ req[1].Header["Authorization"]
               = <<AgentSig(sig.agentID, SignBase64url(sig.priv, sig.signing))>>

StaleCredentialsReplaced ==
    /\ sig.called
    /\ sig.err = ""
    /\ sig.before[1].Header = StaleHeaders
    /\ sig.before[1].Body # Nil
    /\ req[1].Header["Content-Type"] = StaleHeaders["Content-Type"]
    /\ req[1].Header["Authorization"] # StaleHeaders["Authorization"]
    /\ Len(req[1].Header["Authorization"]) = 1


(***************************************************************************)
(* A request without a host (SpecSigner).                                  *)
(***************************************************************************)
\* The Host field is blank and the URL names no host.
Hostless(rq) ==
    /\ rq # Nil
    /\ rq[1].URL # Nil
    /\ TrimSpaceStr(rq[1].Host) = <<>>
    /\ rq[1].URL[1].Host = <<>>

\* C16: a call on a request whose trimmed Host field and URL host are both
\* empty fails although request, key, agent id and URL are as required; when
\* the body can be read the error is the missing-host one, no header is set,
\* and the body has been read and put back with the same bytes.
HostlessRequestFailsAfterBody ==
    (/\ sig.called
     /\ Hostless(sig.before)
     /\ ~PreconditionViolated(sig.before, sig.agentID, sig.priv)) =>
        /\ sig.err # ""
        /\ sig.signing = <<>>
        /\ req[1].Header = sig.before[1].Header
        /\ ~BodyReadFails(sig.before) =>
               /\ sig.err = "missing host (req.Host and req.URL.Host both empty)"
               /\ ReadToEnd(req[1].Body) = ReadToEnd(sig.before[1].Body)
               /\ sig.before[1].Body # Nil =>
                      req[1].Body = Ptr(NewReader(sig.before[1].Body[1].data))

MissingHostAfterBodyRead ==
    /\ sig.called
    /\ Hostless(sig.before)
    /\ sig.before[1].Host # <<>>
    /\ sig.err = "missing host (req.Host and req.URL.Host both empty)"
    /\ sig.before[1].Body # Nil
    /\ ReadToEnd(req[1].Body) = <<1, 2>>
    /\ req[1].Header = NoHeaders

====
